---- MODULE Spec2Model ----
(***************************************************************************)
(* Model of the two scripts of azure-auto-provisioning:                    *)
(*   scripts/validate.py     the post-provisioning validation pipeline     *)
(*   scripts/parse_input.py  the request validator and tfvars writer       *)
(*                                                                         *)
(* The backend (terraform) and the ping command are the environment: each  *)
(* external invocation draws its exit status and standard output from a    *)
(* small set.  Backend documents have the shape terraform emits: a JSON    *)
(* object at the top level, `values` an object when present, every output  *)
(* an object with a `value` member.                                        *)
(***************************************************************************)
EXTENDS Integers, Sequences, FiniteSets, TLC

VARIABLES
    pc,          \* position of main() in validate.py
    exit_code,   \* exit status of validate.py, NoExit while running
    outputs,     \* main's local `outputs`
    state_resp,  \* what `terraform show -json` answered (exit status, stdout)
    outputs_resp,\* what `terraform output -json` answered
    calls,       \* log of component invocations and external processes, in order
    passed,      \* document each of the three later stages received
    probe_idx,   \* ping_vms: 0 before the loop, else 1-based loop index
    probed,      \* log of (address, returncode) of each ping, in order
    console,     \* log of the verdict lines written to standard output
    report,      \* what generate_report rendered, None before it ran
    ppc,         \* position of parse_input.py
    input_file,  \* inputs/server_request.json as found on disk
    dir_ok,      \* whether terraform/ exists, so that open(..., 'w') succeeds
    data,        \* parse_input's local `data`
    pverdict,    \* result of validate_input
    ret,         \* return value of parse_input
    opens,       \* number of times the output file was opened for writing
    tfvars,      \* content of terraform/terraform.tfvars, NoFile if never written
    pconsole,    \* diagnostics printed by parse_input.py
    pexit        \* exit status of parse_input.py, NoExit while running

vvars == <<pc, exit_code, outputs, state_resp, outputs_resp, calls, passed,
           probe_idx, probed, console, report>>
pvars == <<ppc, input_file, dir_ok, data, pverdict, ret, opens, tfvars,
           pconsole, pexit>>
vars == <<vvars, report, pvars>>

(***************************************************************************)
(* Bounds                                                                  *)
(***************************************************************************)
MaxIps == 2      \* longest vm_public_ips list explored

NoExit == -1
None == [kind |-> "None"]

(***************************************************************************)
(* validate.py: data                                                       *)
(***************************************************************************)
RequiredKeys ==
    <<"resource_group_name", "vm_names", "vm_public_ips", "vm_private_ips">>

RecognizedKeys ==
    {"resource_group_name", "vm_names", "vm_public_ips", "vm_private_ips",
     "provisioning_summary", "connection_commands"}

Addresses == {"20.0.0.1", "20.0.0.2"}

\* the fields generate_report reads from provisioning_summary, in print order
SummaryFields ==
    <<"environment", "project_name", "location", "vm_count", "vm_size",
      "os_type", "creation_time">>

SummaryFieldSet == {SummaryFields[i] : i \in 1..Len(SummaryFields)}

SummaryValue(field) ==
    CASE field = "environment"   -> "dev"
      [] field = "project_name"  -> "demo"
      [] field = "location"      -> "eastus"
      [] field = "vm_count"      -> "2"
      [] field = "vm_size"       -> "Standard_B2s"
      [] field = "os_type"       -> "linux"
      [] field = "creation_time" -> "2024-01-01T00:00:00Z"

CommandLists == {<<>>, <<"ssh azureuser@20.0.0.1">>}

IpLists == UNION {[1..n -> Addresses] : n \in 0..MaxIps}

\* The documents `terraform output -json` can print: a mapping from a subset
\* of the output names to {value: ...}; `{}` when no output is defined.
\* provisioning_summary.value holds a subset of SummaryFields; present
\* fields carry the values of SummaryValue.  connection_commands.value is a
\* list of commands.
DocsWith(Summaries) ==
    UNION {{[kind |-> "dict", keys |-> K, public_ips |-> ips,
             summary |-> sm, commands |-> cm] :
                ips \in (IF "vm_public_ips" \in K THEN IpLists ELSE {<<>>}),
                sm \in (IF "provisioning_summary" \in K
                        THEN Summaries ELSE {{}}),
                cm \in (IF "connection_commands" \in K
                        THEN CommandLists ELSE {<<>>})} :
           K \in SUBSET RecognizedKeys}

\* the summaries the backend answers with in a pipeline run: empty, partial
\* and complete
PipelineSummaries == {{}, {"environment", "vm_count"}, SummaryFieldSet}

OutputsDocs == DocsWith(PipelineSummaries)

\* The documents `terraform show -json` can print.  values lists the members
\* of state['values'] (absent when the document has no `values` key) and
\* root_module_empty tells whether values.root_module is {}.
StateDocs ==
    {[kind |-> "dict", has_values |-> FALSE, root_module |-> FALSE, root_module_empty |-> FALSE],
     [kind |-> "dict", has_values |-> TRUE,  root_module |-> FALSE, root_module_empty |-> FALSE],
     [kind |-> "dict", has_values |-> TRUE,  root_module |-> TRUE,  root_module_empty |-> TRUE],
     [kind |-> "dict", has_values |-> TRUE,  root_module |-> TRUE,  root_module_empty |-> FALSE]}

\* Standard output of a process: nothing, white space only, text that is not
\* JSON, or the JSON text of a document.
Texts(Docs) ==
    {[kind |-> "empty"], [kind |-> "blank"], [kind |-> "garbage"]}
        \cup {[kind |-> "json", doc |-> d] : d \in Docs}

Responses(Docs) ==
    {[returncode |-> rc, stdout |-> t] : <<rc, t>> \in {0, 1} \X Texts(Docs)}

NoResp == [returncode |-> NoExit, stdout |-> [kind |-> "empty"]]

(***************************************************************************)
(* validate.py: functions                                                  *)
(***************************************************************************)
\* str.strip()
strip(text) == IF text.kind = "blank" THEN [kind |-> "empty"] ELSE text

\* run_command without check=True: stdout is returned whatever the exit status
run_command_unchecked(resp) == strip(resp.stdout)

\* run_command: stdout.strip() on a zero exit, None on CalledProcessError
run_command(resp) ==
    IF resp.returncode = 0 THEN strip(resp.stdout) ELSE None

\* `not result` for the str-or-None that run_command returns
not_result(result) == result.kind \in {"None", "empty"}

\* json.loads: the document, or JSONDecodeError
json_loads(text) ==
    IF text.kind = "json" THEN text.doc ELSE [kind |-> "JSONDecodeError"]

\* `not outputs` for the dict-or-None held by main
not_outputs(o) == o.kind = "None" \/ (o.kind = "dict" /\ o.keys = {})

\* check_terraform_state testing only the `values` key
check_terraform_state_values_only(resp) ==
    LET result == run_command(resp) IN
    IF not_result(result)
    THEN [ok |-> FALSE, loads |-> 0, out |-> <<>>]
    ELSE LET state == json_loads(result) IN
         IF state.kind = "dict" /\ state.has_values
         THEN [ok |-> TRUE, loads |-> 1, out |-> <<"Terraform state is valid">>]
         ELSE [ok |-> FALSE, loads |-> 1, out |-> <<"Invalid Terraform state">>]

\* check_terraform_state: the returned boolean, the number of json.loads
\* calls and the verdict line printed
check_terraform_state(resp) ==
    LET result == run_command(resp) IN
    IF not_result(result)
    THEN [ok |-> FALSE, loads |-> 0, out |-> <<>>]
    ELSE LET state == json_loads(result) IN
         IF /\ state.kind = "dict"
            /\ state.has_values
            /\ state.root_module
         THEN [ok |-> TRUE, loads |-> 1, out |-> <<"Terraform state is valid">>]
         ELSE [ok |-> FALSE, loads |-> 1, out |-> <<"Invalid Terraform state">>]

\* get_terraform_outputs: the returned dict or None, and the json.loads count
get_terraform_outputs(resp) ==
    LET result == run_command(resp) IN
    IF not_result(result)
    THEN [value |-> None, loads |-> 0, out |-> <<>>]
    ELSE LET parsed == json_loads(result) IN
         IF parsed.kind = "JSONDecodeError"
         THEN [value |-> None, loads |-> 1,
               out |-> <<"Failed to parse Terraform outputs">>]
         ELSE [value |-> parsed, loads |-> 1, out |-> <<>>]

NotFound(key) ==
    CASE key = "resource_group_name" -> "Resource Group not found"
      [] key = "vm_names"            -> "Virtual Machines not found"
      [] key = "vm_public_ips"       -> "Public IPs not found"
      [] key = "vm_private_ips"      -> "Private IPs not found"

\* validate_resources returning at the first missing key
RECURSIVE validate_from_fail_fast(_, _, _, _)
validate_from_fail_fast(o, i, ok, out) ==
    IF i > Len(RequiredKeys) \/ ~ok
    THEN [ok |-> ok, out |-> out]
    ELSE IF RequiredKeys[i] \in o.keys
         THEN validate_from_fail_fast(o, i + 1, ok, out)
         ELSE validate_from_fail_fast(o, i + 1, FALSE,
                                      Append(out, NotFound(RequiredKeys[i])))

\* validate_resources: the four presence checks, run one after the other;
\* i is the check about to run, ok and out what the earlier ones left
RECURSIVE validate_from(_, _, _, _)
validate_from(o, i, ok, out) ==
    IF i > Len(RequiredKeys)
    THEN [ok |-> ok, out |-> out]
    ELSE IF RequiredKeys[i] \in o.keys
         THEN validate_from(o, i + 1, ok, out)
         ELSE validate_from(o, i + 1, FALSE,
                            Append(out, NotFound(RequiredKeys[i])))

\* validate_resources with validation_passed overwritten by each check, so
\* that the last check alone decides
validate_resources_last_wins(o) ==
    [ok |-> "vm_private_ips" \in o.keys, out |-> validate_from(o, 1, TRUE, <<>>).out]

validate_resources(o) == validate_from(o, 1, TRUE, <<>>)

\* outputs.get('provisioning_summary', {}).get('value', {}): the fields of
\* the summary, none when the output is absent
summary_of(o) ==
    IF "provisioning_summary" \in o.keys THEN o.summary ELSE {}

SummaryLabel(field) ==
    CASE field = "environment"   -> "Environment"
      [] field = "project_name"  -> "Project"
      [] field = "location"      -> "Location"
      [] field = "vm_count"      -> "VM Count"
      [] field = "vm_size"       -> "VM Size"
      [] field = "os_type"       -> "OS Type"
      [] field = "creation_time" -> "Created"

\* generate_report indexing summary[field] instead of summary.get(field, 'N/A')
generate_report_strict(o) ==
    IF not_outputs(o)
    THEN [kind |-> "No outputs available"]
    ELSE IF summary_of(o) # SummaryFieldSet
    THEN [kind |-> "KeyError"]
    ELSE [kind |-> "VALIDATION COMPLETED",
          lines |-> [i \in 1..Len(SummaryFields) |->
                       [label |-> SummaryLabel(SummaryFields[i]),
                        value |-> SummaryValue(SummaryFields[i])]],
          commands_listed |-> "connection_commands" \in o.keys,
          commands |-> IF "connection_commands" \in o.keys
                       THEN [i \in 1..Len(o.commands) |->
                               [vm |-> i, cmd |-> o.commands[i]]]
                       ELSE <<>>]

\* generate_report: the "no outputs" report, or the seven summary lines
\* (summary.get(field, 'N/A')) and the numbered connection commands
generate_report(o) ==
    IF not_outputs(o)
    THEN [kind |-> "No outputs available"]
    ELSE [kind |-> "VALIDATION COMPLETED",
          lines |-> [i \in 1..Len(SummaryFields) |->
                       [label |-> SummaryLabel(SummaryFields[i]),
                        value |-> IF SummaryFields[i] \in summary_of(o)
                                  THEN SummaryValue(SummaryFields[i])
                                  ELSE "N/A"]],
          commands_listed |-> "connection_commands" \in o.keys,
          commands |-> IF "connection_commands" \in o.keys
                       THEN [i \in 1..Len(o.commands) |->
                               [vm |-> i, cmd |-> o.commands[i]]]
                       ELSE <<>>]

(***************************************************************************)
(* validate.py: main, one action per stage                                 *)
(***************************************************************************)
Exit(code, line) ==
    /\ exit_code' = code
    /\ console' = console \o line

\* Step 1 without the sys.exit(1): the failure is printed and main goes on
CheckTerraformState_no_exit ==
    /\ pc = "FetchingState"
    /\ \E resp \in Responses(StateDocs) :
         LET r == check_terraform_state(resp) IN
         /\ state_resp' = resp
         /\ calls' = calls \o <<"terraform show">>
                           \o [i \in 1..r.loads |-> "json.loads"]
         /\ pc' = "FetchingOutputs"
         /\ console' = console \o r.out \o
                (IF r.ok THEN <<>>
                 ELSE <<"Validation failed: Invalid Terraform state">>)
         /\ UNCHANGED exit_code
    /\ UNCHANGED <<outputs, outputs_resp, passed, probe_idx, probed, report, pvars>>

\* Step 1: check_terraform_state()
CheckTerraformState ==
    /\ pc = "FetchingState"
    /\ \E resp \in Responses(StateDocs) :
         LET r == check_terraform_state(resp) IN
         /\ state_resp' = resp
         /\ calls' = calls \o <<"terraform show">>
                           \o [i \in 1..r.loads |-> "json.loads"]
         /\ IF r.ok
            THEN /\ pc' = "FetchingOutputs"
                 /\ console' = console \o r.out
                 /\ UNCHANGED exit_code
            ELSE /\ pc' = "Failed"
                 /\ Exit(1, r.out \o <<"Validation failed: Invalid Terraform state">>)
    /\ UNCHANGED <<outputs, outputs_resp, passed, probe_idx, probed, report, pvars>>

\* Step 2: outputs = get_terraform_outputs()
GetTerraformOutputs ==
    /\ pc = "FetchingOutputs"
    /\ \E resp \in Responses(OutputsDocs) :
         LET r == get_terraform_outputs(resp) IN
         /\ outputs_resp' = resp
         /\ outputs' = r.value
         /\ calls' = calls \o <<"terraform output">>
                           \o [i \in 1..r.loads |-> "json.loads"]
         /\ IF not_outputs(r.value)
            THEN /\ pc' = "Failed"
                 /\ Exit(1, r.out \o <<"Validation failed: Could not retrieve outputs">>)
            ELSE /\ pc' = "ValidatingResources"
                 /\ console' = console \o r.out
                 /\ UNCHANGED exit_code
    /\ UNCHANGED <<state_resp, passed, probe_idx, probed, report, pvars>>

\* Step 3 without the sys.exit(1)
ValidateResources_no_exit ==
    /\ pc = "ValidatingResources"
    /\ LET r == validate_resources(outputs) IN
       /\ calls' = Append(calls, "validate_resources")
       /\ passed' = Append(passed, outputs)
       /\ pc' = "ProbingConnectivity"
       /\ console' = console \o r.out \o
              (IF r.ok THEN <<>> ELSE <<"Validation failed: Missing resources">>)
       /\ UNCHANGED exit_code
    /\ UNCHANGED <<outputs, state_resp, outputs_resp, probe_idx, probed, report, pvars>>

\* Step 3 going straight to the report when the resources are there
ValidateResources_skip_probe ==
    /\ pc = "ValidatingResources"
    /\ LET r == validate_resources(outputs) IN
       /\ calls' = Append(calls, "validate_resources")
       /\ passed' = Append(passed, outputs)
       /\ IF r.ok
          THEN /\ pc' = "Reporting"
               /\ console' = console \o r.out
               /\ UNCHANGED exit_code
          ELSE /\ pc' = "Failed"
               /\ Exit(1, r.out \o <<"Validation failed: Missing resources">>)
    /\ UNCHANGED <<outputs, state_resp, outputs_resp, probe_idx, probed, report, pvars>>

\* Step 3: validate_resources(outputs)
ValidateResources ==
    /\ pc = "ValidatingResources"
    /\ LET r == validate_resources(outputs) IN
       /\ calls' = Append(calls, "validate_resources")
       /\ passed' = Append(passed, outputs)
       /\ IF r.ok
          THEN /\ pc' = "ProbingConnectivity"
               /\ console' = console \o r.out
               /\ UNCHANGED exit_code
          ELSE /\ pc' = "Failed"
               /\ Exit(1, r.out \o <<"Validation failed: Missing resources">>)
    /\ UNCHANGED <<outputs, state_resp, outputs_resp, probe_idx, probed, report, pvars>>

\* Step 4 with ping_vms taking vm_public_ips out of the dict it was given
PingVms_pops_key ==
    /\ pc = "ProbingConnectivity"
    /\ probe_idx = 0
    /\ calls' = Append(calls, "ping_vms")
    /\ passed' = Append(passed, outputs)
    /\ outputs' = [outputs EXCEPT !.keys = @ \ {"vm_public_ips"}]
    /\ IF "vm_public_ips" \notin outputs.keys
       THEN /\ pc' = "Reporting"
            /\ console' = Append(console, "Skipping connectivity test")
            /\ UNCHANGED probe_idx
       ELSE /\ probe_idx' = 1
            /\ UNCHANGED <<pc, console>>
    /\ UNCHANGED <<exit_code, state_resp, outputs_resp, probed, report, pvars>>

\* Step 4: ping_vms(outputs), up to the loop
PingVms ==
    /\ pc = "ProbingConnectivity"
    /\ probe_idx = 0
    /\ calls' = Append(calls, "ping_vms")
    /\ passed' = Append(passed, outputs)
    /\ IF "vm_public_ips" \notin outputs.keys
       THEN /\ pc' = "Reporting"
            /\ console' = Append(console, "Skipping connectivity test")
            /\ UNCHANGED probe_idx
       ELSE /\ probe_idx' = 1
            /\ UNCHANGED <<pc, console>>
    /\ UNCHANGED <<exit_code, outputs, state_resp, outputs_resp, probed, report, pvars>>

\* Step 4 with an unreachable address treated as fatal
Ping_fatal ==
    /\ pc = "ProbingConnectivity"
    /\ probe_idx >= 1
    /\ probe_idx <= Len(outputs.public_ips)
    /\ \E rc \in {0, 1} :
         /\ probed' = Append(probed, [ip |-> outputs.public_ips[probe_idx],
                                      returncode |-> rc])
         /\ IF rc = 0
            THEN /\ console' = Append(console, "is reachable")
                 /\ UNCHANGED <<pc, exit_code>>
            ELSE /\ pc' = "Failed"
                 /\ Exit(1, <<"is not responding to ping">>)
    /\ calls' = Append(calls, "ping")
    /\ probe_idx' = probe_idx + 1
    /\ UNCHANGED <<outputs, state_resp, outputs_resp, passed, report, pvars>>

\* Step 4 pinging an address again after a failed ping
Ping_retry ==
    /\ pc = "ProbingConnectivity"
    /\ probe_idx >= 1
    /\ probe_idx <= Len(outputs.public_ips)
    /\ \E rc \in {0, 1} :
         /\ probed' = Append(probed, [ip |-> outputs.public_ips[probe_idx],
                                      returncode |-> rc])
         /\ console' = Append(console,
                IF rc = 0 THEN "is reachable" ELSE "is not responding to ping")
         /\ probe_idx' = IF rc = 0 \/ Len(probed) >= probe_idx
                         THEN probe_idx + 1 ELSE probe_idx
    /\ calls' = Append(calls, "ping")
    /\ UNCHANGED <<pc, exit_code, outputs, state_resp, outputs_resp, passed, report, pvars>>

\* Step 4: one iteration of the loop over public_ips
Ping ==
    /\ pc = "ProbingConnectivity"
    /\ probe_idx >= 1
    /\ probe_idx <= Len(outputs.public_ips)
    /\ \E rc \in {0, 1} :
         /\ probed' = Append(probed, [ip |-> outputs.public_ips[probe_idx],
                                      returncode |-> rc])
         /\ console' = Append(console,
                IF rc = 0 THEN "is reachable" ELSE "is not responding to ping")
    /\ calls' = Append(calls, "ping")
    /\ probe_idx' = probe_idx + 1
    /\ UNCHANGED <<pc, exit_code, outputs, state_resp, outputs_resp, passed, report, pvars>>

\* Step 4 with the loop stopping one entry short
PingVmsReturn_one_short ==
    /\ pc = "ProbingConnectivity"
    /\ probe_idx >= 1
    /\ probe_idx >= Len(outputs.public_ips)
    /\ pc' = "Reporting"
    /\ UNCHANGED <<exit_code, outputs, state_resp, outputs_resp, calls, passed,
                   probe_idx, probed, console, report, pvars>>

\* Step 4: the loop is exhausted, ping_vms returns True (main ignores it)
PingVmsReturn ==
    /\ pc = "ProbingConnectivity"
    /\ probe_idx > Len(outputs.public_ips)
    /\ pc' = "Reporting"
    /\ UNCHANGED <<exit_code, outputs, state_resp, outputs_resp, calls, passed,
                   probe_idx, probed, console, report, pvars>>

\* Step 5: generate_report(outputs); return 0
GenerateReport ==
    /\ pc = "Reporting"
    /\ calls' = Append(calls, "generate_report")
    /\ passed' = Append(passed, outputs)
    /\ pc' = "Done"
    /\ report' = generate_report(outputs)
    /\ Exit(0, <<"All validation checks passed">>)
    /\ UNCHANGED <<outputs, state_resp, outputs_resp, probe_idx, probed, pvars>>

(***************************************************************************)
(* parse_input.py: data                                                    *)
(***************************************************************************)
MaxVmCount == 2  \* largest integer vm_count explored

\* JSON values as json.load returns them; Absent marks a key the object lacks
Absent == [t |-> "absent"]
Null == [t |-> "null"]
JStr(s) == [t |-> "str", s |-> s]
JInt(n) == [t |-> "int", n |-> n]
JBool(b) == [t |-> "bool", b |-> b]
JFloat(text) == [t |-> "float", text |-> text]
\* a JSON object, its members in document order (dict keeps insertion order)
JDict(items) == [t |-> "dict", items |-> items]

Environments == {Absent, JStr("dev"), JStr("staging"), JStr("production"), JStr("qa")}

VmCounts ==
    {Absent, Null, JStr("2"), JFloat("1.5"), JBool(TRUE), JBool(FALSE)}
        \cup {JInt(n) : n \in -1..MaxVmCount}

TagValues ==
    {Absent, Null, JStr("team=infra"), JDict(<<>>),
     JDict(<<[key |-> "team", value |-> "infra"], [key |-> "tier", value |-> "prod"]>>),
     JDict(<<[key |-> "tier", value |-> "prod"], [key |-> "team", value |-> "infra"]>>)}

Requests ==
    [kind : {"dict"},
     environment : Environments,
     vm_count : VmCounts,
     vm_size : {Absent, JStr("Standard_B2s")},
     location : {Absent, JStr("eastus")},
     project_name : {Absent, JStr("demo")},
     admin_username : {Absent, JStr("admin")},
     os_type : {Absent, JStr("windows")},
     tags : TagValues]

\* inputs/server_request.json: not there, not JSON, or the JSON text of a
\* request object, of an array or of a number
InputFiles ==
    {[kind |-> "missing"], [kind |-> "malformed"]}
        \cup {[kind |-> "json", doc |-> d] :
                d \in Requests \cup {[kind |-> "list"], [kind |-> "int"]}}

(***************************************************************************)
(* parse_input.py: functions                                               *)
(***************************************************************************)
required_fields ==
    <<"environment", "vm_count", "vm_size", "location", "project_name">>

valid_envs == {"dev", "staging", "production"}

\* `field in data` for a dict (key lookup) and for a list (element lookup;
\* the list explored holds no string)
in_data(field, d) == d.kind = "dict" /\ d[field].t # "absent"

\* isinstance(v, int): bool is a subclass of int
isinstance_int(v) == v.t \in {"int", "bool"}

\* the integer an int or a bool compares as
as_int(v) == IF v.t = "bool" THEN (IF v.b THEN 1 ELSE 0) ELSE v.n

\* the required-field loop reporting the last missing field, not the first
RECURSIVE first_missing_keeps_last(_, _)
first_missing_keeps_last(d, i) ==
    IF i > Len(required_fields) THEN 0
    ELSE LET later == first_missing_keeps_last(d, i + 1) IN
         IF later # 0 THEN later
         ELSE IF ~in_data(required_fields[i], d) THEN i ELSE 0

\* first index of required_fields from i on that data lacks, 0 if none
RECURSIVE first_missing(_, _)
first_missing(d, i) ==
    IF i > Len(required_fields) THEN 0
    ELSE IF ~in_data(required_fields[i], d) THEN i
    ELSE first_missing(d, i + 1)

\* validate_input: the verdict and the diagnostic, or the TypeError that
\* `field not in data` raises when data is a number
validate_input(d) ==
    IF d.kind = "int"
    THEN [raised |-> TRUE, ok |-> FALSE, out |-> "TypeError"]
    ELSE LET m == first_missing(d, 1) IN
         IF m # 0
         THEN [raised |-> FALSE, ok |-> FALSE,
               out |-> "Missing required field '" \o required_fields[m] \o "'"]
         ELSE IF ~isinstance_int(d.vm_count) \/ as_int(d.vm_count) < 1
         THEN [raised |-> FALSE, ok |-> FALSE,
               out |-> "vm_count must be a positive integer"]
         ELSE IF d.environment.s \notin valid_envs
         THEN [raised |-> FALSE, ok |-> FALSE,
               out |-> "environment must be one of valid_envs"]
         ELSE [raised |-> FALSE, ok |-> TRUE, out |-> "Input validation passed"]

\* str() of a value, as an f-string interpolates it
format(v) ==
    CASE v.t = "str"   -> v.s
      [] v.t = "int"   -> ToString(v.n)
      [] v.t = "bool"  -> IF v.b THEN "True" ELSE "False"
      [] v.t = "float" -> v.text
      [] v.t = "null"  -> "None"

\* data.get(field, default)
get(d, field, default) == IF in_data(field, d) THEN d[field] ELSE JStr(default)

\* truth value of a present JSON value
truthy(v) ==
    CASE v.t = "null" -> FALSE
      [] v.t = "str"  -> v.s # ""
      [] v.t = "dict" -> v.items # <<>>

Assign(key, v, quoted) == [key |-> key, text |-> format(v), quoted |-> quoted]

\* tfvars_content walking the tags from the last entry to the first
tfvars_content_reversed_tags(d) ==
    IF d.kind # "dict" THEN [kind |-> "TypeError"]
    ELSE IF first_missing(d, 1) # 0 THEN [kind |-> "KeyError"]
    ELSE
    LET assignments ==
            <<Assign("environment", d.environment, TRUE),
              Assign("project_name", d.project_name, TRUE),
              Assign("location", d.location, TRUE),
              Assign("vm_count", d.vm_count, FALSE),
              Assign("vm_size", d.vm_size, TRUE),
              Assign("admin_username", get(d, "admin_username", "azureuser"), TRUE),
              Assign("os_type", get(d, "os_type", "linux"), TRUE)>>
    IN  IF in_data("tags", d) /\ truthy(d.tags)
        THEN IF d.tags.t = "dict"
             THEN [kind |-> "text", assignments |-> assignments,
                   tags_block |-> TRUE,
                   tags |-> [i \in 1..Len(d.tags.items) |->
                               Assign(d.tags.items[Len(d.tags.items) + 1 - i].key,
                                      JStr(d.tags.items[Len(d.tags.items) + 1 - i].value),
                                      TRUE)]]
             ELSE [kind |-> "AttributeError"]
        ELSE [kind |-> "text", assignments |-> assignments,
              tags_block |-> FALSE, tags |-> <<>>]

\* the tfvars text parse_input builds: the seven assignments, then the tags
\* block; TypeError when data is not subscriptable by a string, KeyError when
\* data lacks an interpolated field, AttributeError when tags is truthy and
\* has no .items()
tfvars_content(d) ==
    IF d.kind # "dict" THEN [kind |-> "TypeError"]
    ELSE IF first_missing(d, 1) # 0 THEN [kind |-> "KeyError"]
    ELSE
    LET assignments ==
            <<Assign("environment", d.environment, TRUE),
              Assign("project_name", d.project_name, TRUE),
              Assign("location", d.location, TRUE),
              Assign("vm_count", d.vm_count, FALSE),
              Assign("vm_size", d.vm_size, TRUE),
              Assign("admin_username", get(d, "admin_username", "azureuser"), TRUE),
              Assign("os_type", get(d, "os_type", "linux"), TRUE)>>
    IN  IF in_data("tags", d) /\ truthy(d.tags)
        THEN IF d.tags.t = "dict"
             THEN [kind |-> "text", assignments |-> assignments,
                   tags_block |-> TRUE,
                   tags |-> [i \in 1..Len(d.tags.items) |->
                               Assign(d.tags.items[i].key,
                                      JStr(d.tags.items[i].value), TRUE)]]
             ELSE [kind |-> "AttributeError"]
        ELSE [kind |-> "text", assignments |-> assignments,
              tags_block |-> FALSE, tags |-> <<>>]

(***************************************************************************)
(* parse_input.py: parse_input and the __main__ block                      *)
(***************************************************************************)
\* with open(input_file, 'r') as f: data = json.load(f)
ReadInput ==
    /\ ppc = "read"
    /\ IF input_file.kind = "missing"
       THEN /\ ret' = JBool(FALSE)
            /\ pconsole' = Append(pconsole, "Input file not found")
            /\ ppc' = "return"
            /\ UNCHANGED data
       ELSE IF input_file.kind = "malformed"
       THEN /\ ret' = JBool(FALSE)
            /\ pconsole' = Append(pconsole, "Invalid JSON in input file")
            /\ ppc' = "return"
            /\ UNCHANGED data
       ELSE /\ data' = input_file.doc
            /\ ppc' = "validate"
            /\ UNCHANGED <<ret, pconsole>>
    /\ UNCHANGED <<input_file, dir_ok, pverdict, opens, tfvars, pexit, vvars>>

\* validate_input's verdict printed but not acted on
ValidateInput_no_exit ==
    /\ ppc = "validate"
    /\ LET r == validate_input(data) IN
       /\ pverdict' = r
       /\ pconsole' = Append(pconsole, r.out)
       /\ IF r.raised
          THEN ret' = JBool(FALSE) /\ ppc' = "return"
          ELSE ppc' = "write" /\ UNCHANGED ret
    /\ UNCHANGED <<input_file, dir_ok, data, opens, tfvars, pexit, vvars>>

\* if not validate_input(data): sys.exit(1)
ValidateInput ==
    /\ ppc = "validate"
    /\ LET r == validate_input(data) IN
       /\ pverdict' = r
       /\ pconsole' = Append(pconsole, r.out)
       /\ IF r.raised
          THEN ret' = JBool(FALSE) /\ ppc' = "return" /\ UNCHANGED pexit
          ELSE IF ~r.ok
          THEN pexit' = 1 /\ ppc' = "exited" /\ UNCHANGED ret
          ELSE ppc' = "write" /\ UNCHANGED <<ret, pexit>>
    /\ UNCHANGED <<input_file, dir_ok, data, opens, tfvars, vvars>>

\* build tfvars_content; with open(output_file, 'w') as f: f.write(...)
WriteTfvars ==
    /\ ppc = "write"
    /\ LET content == tfvars_content(data) IN
       IF content.kind # "text"
       THEN /\ ret' = JBool(FALSE)
            /\ pconsole' = Append(pconsole, content.kind)
            /\ UNCHANGED <<opens, tfvars>>
       ELSE /\ opens' = opens + 1
            /\ IF dir_ok
               THEN /\ tfvars' = content
                    /\ ret' = JBool(TRUE)
                    /\ pconsole' = Append(pconsole, "Generated Terraform variables")
               ELSE /\ ret' = JBool(FALSE)
                    /\ pconsole' = Append(pconsole, "Input file not found")
                    /\ UNCHANGED tfvars
    /\ ppc' = "return"
    /\ UNCHANGED <<input_file, dir_ok, data, pverdict, pexit, vvars>>

\* if parse_input(...): sys.exit(0) else: sys.exit(1)
ExitParseInput ==
    /\ ppc = "return"
    /\ pexit' = IF ret.b THEN 0 ELSE 1
    /\ ppc' = "exited"
    /\ UNCHANGED <<input_file, dir_ok, data, pverdict, ret, opens, tfvars,
                   pconsole, vvars>>

InitValidate ==
    /\ pc = "FetchingState"
    /\ exit_code = NoExit
    /\ outputs = None
    /\ state_resp = NoResp
    /\ outputs_resp = NoResp
    /\ calls = <<>>
    /\ passed = <<>>
    /\ probe_idx = 0
    /\ probed = <<>>
    /\ console = <<>>
    /\ report = None

IdleParse ==
    /\ ppc = "idle"
    /\ input_file = [kind |-> "missing"]
    /\ dir_ok = TRUE
    /\ data = None
    /\ pverdict = None
    /\ ret = None
    /\ opens = 0
    /\ tfvars = [kind |-> "NoFile"]
    /\ pconsole = <<>>
    /\ pexit = NoExit

Init == InitValidate /\ IdleParse

Next ==
    \/ CheckTerraformState
    \/ GetTerraformOutputs
    \/ ValidateResources
    \/ PingVms
    \/ Ping
    \/ PingVmsReturn
    \/ GenerateReport

Spec == Init /\ [][Next]_vars

\* main runs to completion: every external process returns and the
\* interpreter executes the next statement
FairSpec == Spec /\ WF_vars(Next)

\* generate_report called on its own, with any document or None
CallGenerateReport ==
    /\ pc = "call generate_report"
    /\ calls' = Append(calls, "generate_report")
    /\ passed' = Append(passed, outputs)
    /\ report' = generate_report(outputs)
    /\ pc' = "returned"
    /\ UNCHANGED <<exit_code, outputs, state_resp, outputs_resp, probe_idx,
                   probed, console, pvars>>

ReportInit ==
    /\ pc = "call generate_report"
    /\ exit_code = NoExit
    /\ outputs \in DocsWith(SUBSET SummaryFieldSet) \cup {None}
    /\ state_resp = NoResp
    /\ outputs_resp = NoResp
    /\ calls = <<>>
    /\ passed = <<>>
    /\ probe_idx = 0
    /\ probed = <<>>
    /\ console = <<>>
    /\ report = None
    /\ IdleParse

ReportNext == CallGenerateReport

ReportSpec == ReportInit /\ [][ReportNext]_vars

\* parse_input.py run on its own
IdleValidate ==
    /\ pc = "idle"
    /\ exit_code = NoExit
    /\ outputs = None
    /\ state_resp = NoResp
    /\ outputs_resp = NoResp
    /\ calls = <<>>
    /\ passed = <<>>
    /\ probe_idx = 0
    /\ probed = <<>>
    /\ console = <<>>
    /\ report = None

InitParse ==
    /\ ppc = "read"
    /\ input_file \in InputFiles
    /\ dir_ok \in BOOLEAN
    /\ data = None
    /\ pverdict = None
    /\ ret = None
    /\ opens = 0
    /\ tfvars = [kind |-> "NoFile"]
    /\ pconsole = <<>>
    /\ pexit = NoExit

ParseInit == IdleValidate /\ InitParse

ParseNext ==
    \/ ReadInput
    \/ ValidateInput
    \/ WriteTfvars
    \/ ExitParseInput

ParseSpec == ParseInit /\ [][ParseNext]_vars

(***************************************************************************)
(* Observations used by the properties                                     *)
(***************************************************************************)
Count(name) == Cardinality({i \in DOMAIN calls : calls[i] = name})

Printed(line) == \E i \in DOMAIN console : console[i] = line

\* the last line main printed before sys.exit(1)
Reason == IF console = <<>> THEN "" ELSE console[Len(console)]

InvalidState == "Validation failed: Invalid Terraform state"
NoOutputs == "Validation failed: Could not retrieve outputs"
MissingResources == "Validation failed: Missing resources"

StateQueried == state_resp # NoResp
OutputsQueried == outputs_resp # NoResp

\* the backend answered with a document: zero exit and JSON on stdout
Available(resp) == resp.returncode = 0 /\ resp.stdout.kind = "json"

\* the state document has a root_module member under values
HasRootModule(resp) ==
    Available(resp) /\ resp.stdout.doc.has_values /\ resp.stdout.doc.root_module

MissingKeys(doc) == {k \in {RequiredKeys[i] : i \in 1..4} : k \notin doc.keys}

Terminal == pc \in {"Done", "Failed"}

(***************************************************************************)
(* C1: when the state query is unavailable or the state is rejected, the   *)
(* run is in Failed("invalid state") with exit code 1, nothing further can *)
(* happen, the outputs query was never issued and validate_resources,      *)
(* ping_vms/ping and generate_report were called zero times.               *)
(***************************************************************************)
C1_InvalidStateHalts ==
    (StateQueried /\ ~HasRootModule(state_resp)) =>
        /\ pc = "Failed"
        /\ Reason = InvalidState
        /\ exit_code = 1
        /\ ~ENABLED Next
        /\ ~OutputsQueried
        /\ outputs = None
        /\ Count("terraform output") = 0
        /\ Count("validate_resources") = 0
        /\ Count("ping_vms") = 0
        /\ Count("ping") = 0
        /\ Count("generate_report") = 0

C1_Witness ==
    /\ pc = "Failed"
    /\ Available(state_resp)
    /\ ~state_resp.stdout.doc.has_values
    /\ Reason = InvalidState

(***************************************************************************)
(* C2: the connectivity probe never changes the terminal state: from       *)
(* ProbingConnectivity the run only stays there or moves to Reporting,     *)
(* from Reporting it only moves to Done with exit code 0, and every run    *)
(* that enters ProbingConnectivity does reach Done with exit code 0,       *)
(* whatever the addresses and whatever each ping returns.                  *)
(***************************************************************************)
C2_ProbeNeverFails ==
    /\ [][pc = "ProbingConnectivity" =>
            pc' \in {"ProbingConnectivity", "Reporting"} /\ exit_code' = NoExit]_vars
    /\ [][pc = "Reporting" => pc' = "Done" /\ exit_code' = 0]_vars
    /\ (pc = "ProbingConnectivity") ~> (pc = "Done" /\ exit_code = 0)

C2_Witness ==
    /\ pc = "Done"
    /\ exit_code = 0
    /\ Len(probed) >= 2
    /\ \A i \in DOMAIN probed : probed[i].returncode # 0

(***************************************************************************)
(* C3 (as claimed): once outputs were fetched that lack one of the four    *)
(* required keys, the run is validating them or has ended in               *)
(* Failed("missing resources") with exit code 1, and neither ping_vms nor  *)
(* generate_report was called.                                             *)
(***************************************************************************)
C3_MissingKeyFailsAsMissingResources ==
    (Available(outputs_resp) /\ MissingKeys(outputs_resp.stdout.doc) # {}) =>
        /\ pc = "ValidatingResources" \/
              (pc = "Failed" /\ Reason = MissingResources /\ exit_code = 1)
        /\ Count("ping_vms") = 0
        /\ Count("generate_report") = 0

(***************************************************************************)
(* C4: validate_resources returns true iff all four required keys are      *)
(* present, and prints one "not found" line for each absent key and for    *)
(* no other, in the order of the checks, also after an earlier key was     *)
(* found missing.                                                          *)
(***************************************************************************)
NotFoundLines == {NotFound(RequiredKeys[i]) : i \in 1..4}

IsNotFoundLine(line) == line \in NotFoundLines

IsMissing(key) == key \notin outputs.keys

C4_ValidateResourcesComplete ==
    Count("validate_resources") >= 1 =>
        /\ (pc # "Failed") <=> (MissingKeys(outputs) = {})
        /\ pc = "Failed" => Reason = MissingResources
        /\ SelectSeq(console, IsNotFoundLine) =
              [i \in 1..Cardinality(MissingKeys(outputs)) |->
                  NotFound(SelectSeq(RequiredKeys, IsMissing)[i])]

C4_Witness ==
    /\ Count("validate_resources") = 1
    /\ outputs.keys = {"vm_names", "provisioning_summary"}
    /\ Len(SelectSeq(console, IsNotFoundLine)) = 3

(***************************************************************************)
(* C5 (as claimed): the run is in Failed("no outputs") only when the       *)
(* outputs query was unavailable (non-zero exit or unparsable text); every *)
(* fetched and parsed mapping, the one with no keys included, goes on to   *)
(* validate_resources.                                                     *)
(***************************************************************************)
C5_NoOutputsOnlyWhenUnavailable ==
    /\ (pc = "Failed" /\ Reason = NoOutputs) => ~Available(outputs_resp)
    /\ (Available(outputs_resp) /\ pc # "ValidatingResources") =>
            Count("validate_resources") = 1

(***************************************************************************)
(* C6 (as claimed): a state document is accepted iff it has a non-empty    *)
(* root module under values; every other returned document is rejected.    *)
(***************************************************************************)
StateAccepted == StateQueried /\ ~(pc = "Failed" /\ Reason = InvalidState)

C6_ValidIffNonEmptyRootModule ==
    (StateQueried /\ Available(state_resp)) =>
        (StateAccepted <=>
            (HasRootModule(state_resp) /\ ~state_resp.stdout.doc.root_module_empty))

(***************************************************************************)
(* C6 (amended): a state document is accepted iff it has a root_module     *)
(* member under its values key, whether that root module is empty or not;  *)
(* every other returned document is rejected and the run is in             *)
(* Failed("invalid state").                                                *)
(***************************************************************************)
C6_ValidIffRootModulePresent ==
    (StateQueried /\ Available(state_resp)) =>
        /\ StateAccepted <=> HasRootModule(state_resp)
        /\ StateAccepted <=> Printed("Terraform state is valid")
        /\ ~StateAccepted => (pc = "Failed" /\ Printed("Invalid Terraform state"))

C6_Witness ==
    /\ StateAccepted
    /\ Available(state_resp)
    /\ state_resp.stdout.doc.root_module_empty
    /\ pc = "FetchingOutputs"

(***************************************************************************)
(* C7: exit code 0 iff the run is Done; the run is Done only if the state  *)
(* was accepted, the outputs were available and all four required keys     *)
(* were present, and a run for which all three hold never fails; a Failed  *)
(* run has exit code 1 and one of the three reasons as its last line; the  *)
(* states in which main can do nothing more are exactly Done and Failed.   *)
(***************************************************************************)
AllPassed ==
    /\ HasRootModule(state_resp)
    /\ Available(outputs_resp)
    /\ MissingKeys(outputs_resp.stdout.doc) = {}

C7_ExitCodes ==
    /\ exit_code = 0 <=> pc = "Done"
    /\ exit_code = 1 <=> pc = "Failed"
    /\ pc = "Done" => AllPassed
    /\ pc = "Failed" =>
          /\ ~AllPassed
          /\ Reason \in {InvalidState, NoOutputs, MissingResources}
    /\ Terminal <=> ~ENABLED Next
    /\ ~Terminal => exit_code = NoExit

C7_Witness ==
    /\ pc = "Done"
    /\ exit_code = 0
    /\ AllPassed
    /\ Len(probed) >= 1

(***************************************************************************)
(* C8: for both queries, a non-zero exit is reported as unavailable with   *)
(* no json.loads call; a zero exit with text that is not JSON is reported  *)
(* as unavailable; a document is returned (the state accepted, outputs     *)
(* bound to a mapping) only after a zero exit with JSON text, and outputs  *)
(* is then the document that text denotes.                                 *)
(***************************************************************************)
C8_UnavailableWithoutParse ==
    /\ (StateQueried /\ state_resp.returncode # 0) =>
            (Count("json.loads") = 0 /\ ~StateAccepted)
    /\ (StateQueried /\ ~Available(state_resp)) => ~StateAccepted
    /\ StateAccepted => (Available(state_resp) /\ Count("json.loads") >= 1)
    /\ (OutputsQueried /\ outputs_resp.returncode # 0) =>
            (Count("json.loads") = 1 /\ outputs = None)
    /\ (OutputsQueried /\ ~Available(outputs_resp)) =>
            (outputs = None /\ pc = "Failed" /\ Reason = NoOutputs)
    /\ outputs # None =>
            (Available(outputs_resp) /\ outputs = outputs_resp.stdout.doc
                /\ Count("json.loads") = 2)

C8_Witness ==
    /\ OutputsQueried
    /\ outputs_resp.returncode # 0
    /\ outputs_resp.stdout.kind = "json"
    /\ pc = "Failed"

(***************************************************************************)
(* C9: nothing is retried: the state query and the outputs query are each  *)
(* issued at most once, the pings made so far are the first entries of     *)
(* vm_public_ips in list order, one ping per entry whatever it returned,   *)
(* and when ping_vms has returned every entry was pinged exactly once.     *)
(***************************************************************************)
C9_NoRetries ==
    /\ Count("terraform show") <= 1
    /\ Count("terraform output") <= 1
    /\ Count("ping") = Len(probed)
    /\ Count("ping_vms") <= 1
    /\ probed # <<>> =>
          /\ Count("ping_vms") = 1
          /\ Len(probed) <= Len(outputs.public_ips)
          /\ \A i \in DOMAIN probed : probed[i].ip = outputs.public_ips[i]
    /\ pc \in {"Reporting", "Done"} => Len(probed) = Len(outputs.public_ips)

C9_Witness ==
    /\ pc = "Done"
    /\ Len(probed) = 2
    /\ probed[1].returncode # 0
    /\ probed[1].ip = probed[2].ip

(***************************************************************************)
(* C10: a request that fails validation is never written: when the input   *)
(* file is missing or malformed, or validate_input did not return True,    *)
(* the output file is never opened for writing, no tfvars file exists,     *)
(* and the process exits with code 1.                                      *)
(***************************************************************************)
InputRejected ==
    \/ input_file.kind \in {"missing", "malformed"}
    \/ (pverdict # None /\ ~pverdict.ok)

C10_RejectedNeverWritten ==
    InputRejected =>
        /\ opens = 0
        /\ tfvars = [kind |-> "NoFile"]
        /\ ppc # "write"
        /\ pexit \in {NoExit, 1}
        /\ ppc = "exited" => pexit = 1
        /\ (pverdict # None /\ ~pverdict.raised) => (ppc = "exited" /\ pexit = 1)

C10_Witness ==
    /\ ppc = "exited"
    /\ pexit = 1
    /\ pverdict # None
    /\ ~pverdict.ok
    /\ ~pverdict.raised
    /\ pverdict.out = "vm_count must be a positive integer"

(***************************************************************************)
(* Observations on a validated request                                     *)
(***************************************************************************)
\* validate_input has returned a verdict on a request object
Validated == pverdict # None /\ data.kind = "dict"

\* the required fields the request lacks, as positions in the order the
\* specification fixes
FieldOrder == <<"environment", "vm_count", "vm_size", "location", "project_name">>

MissingFields == {i \in 1..5 : data[FieldOrder[i]].t = "absent"}

VmCountMessage == "vm_count must be a positive integer"

(***************************************************************************)
(* C11 (as claimed): for a request with all five required fields,          *)
(* validate_input fails when vm_count is not an integer (string, boolean,  *)
(* null, fractional number) or is an integer <= 0, and does not report     *)
(* vm_count when it is an integer >= 1.                                    *)
(***************************************************************************)
C11_VmCountMustBePositiveInteger ==
    (Validated /\ MissingFields = {}) =>
        /\ (data.vm_count.t # "int" \/ data.vm_count.n <= 0) => ~pverdict.ok
        /\ (data.vm_count.t = "int" /\ data.vm_count.n >= 1) =>
                pverdict.out # VmCountMessage

(***************************************************************************)
(* C12: for a request lacking at least one required field, validate_input  *)
(* fails and its only diagnostic names the first missing field in the      *)
(* order environment, vm_count, vm_size, location, project_name; no later  *)
(* missing field and no vm_count or environment error is printed, and the  *)
(* process exits with code 1.                                              *)
(***************************************************************************)
C12_FirstMissingFieldOnly ==
    (Validated /\ MissingFields # {}) =>
        LET m == CHOOSE i \in MissingFields : \A j \in MissingFields : i <= j IN
        /\ ~pverdict.ok
        /\ ~pverdict.raised
        /\ pverdict.out = "Missing required field '" \o FieldOrder[m] \o "'"
        /\ pconsole = <<pverdict.out>>
        /\ pexit = 1

C12_Witness ==
    /\ Validated
    /\ MissingFields = {2, 4}
    /\ data.environment = JStr("qa")
    /\ pverdict.out = "Missing required field 'vm_count'"
    /\ pconsole = <<"Missing required field 'vm_count'">>

(***************************************************************************)
(* Observations on a rendered report                                       *)
(***************************************************************************)
\* the seven summary fields in the order the specification lists them
ReportOrder ==
    <<"environment", "project_name", "location", "vm_count", "vm_size",
      "os_type", "creation_time">>

\* the report shows all seven fields, each absent one as the sentinel, and
\* the connection commands iff the output is present
FullReport ==
    /\ report.kind = "VALIDATION COMPLETED"
    /\ Len(report.lines) = 7
    /\ \A i \in 1..7 :
          /\ report.lines[i].label = SummaryLabel(ReportOrder[i])
          /\ report.lines[i].value =
                IF "provisioning_summary" \in outputs.keys
                      /\ ReportOrder[i] \in outputs.summary
                THEN SummaryValue(ReportOrder[i]) ELSE "N/A"
    /\ report.commands_listed <=> "connection_commands" \in outputs.keys
    /\ "connection_commands" \in outputs.keys =>
          /\ Len(report.commands) = Len(outputs.commands)
          /\ \A i \in DOMAIN report.commands :
                report.commands[i] = [vm |-> i, cmd |-> outputs.commands[i]]
    /\ "connection_commands" \notin outputs.keys => report.commands = <<>>

NoDataReport == report = [kind |-> "No outputs available"]

(***************************************************************************)
(* C13 (as claimed): generate_report renders, for every outputs mapping    *)
(* and every subset of the summary fields, all seven fields with "N/A" for *)
(* each absent one and the command list iff connection_commands is         *)
(* present; only entirely absent outputs (None) give the "no data" report. *)
(***************************************************************************)
C13_ReportOnEveryMapping ==
    report # None =>
        IF outputs = None THEN NoDataReport ELSE FullReport

(***************************************************************************)
(* C13 (amended): generate_report never fails: for every outputs mapping   *)
(* with at least one key and every subset of the summary fields it renders *)
(* all seven fields with "N/A" for each absent one, and the command list   *)
(* iff connection_commands is present; absent outputs (None) and the empty *)
(* mapping {} both give the "no data" report.                              *)
(***************************************************************************)
C13_ReportOnEveryNonEmptyMapping ==
    report # None =>
        IF outputs = None \/ outputs.keys = {}
        THEN NoDataReport ELSE FullReport

C13_Witness ==
    /\ pc = "returned"
    /\ outputs # None
    /\ outputs.keys = {"provisioning_summary", "vm_names"}
    /\ outputs.summary = {"environment", "creation_time"}
    /\ report.kind = "VALIDATION COMPLETED"
    /\ report.lines[2].value = "N/A"
    /\ report.lines[7].value = SummaryValue("creation_time")

(***************************************************************************)
(* Observations on the written variable file                               *)
(***************************************************************************)
Written == tfvars # [kind |-> "NoFile"]

\* the assignment order the specification fixes
AssignmentOrder ==
    <<"environment", "project_name", "location", "vm_count", "vm_size",
      "admin_username", "os_type">>

\* tags is absent, null or a mapping, as the request's data model declares
TagsWellTyped == data.tags.t \in {"absent", "null", "dict"}

TagsNonEmpty == data.tags.t = "dict" /\ data.tags.items # <<>>

\* the text of a field the request carries, else the default
TextOr(field, default) ==
    IF data[field].t = "absent" THEN default ELSE data[field].s

(***************************************************************************)
(* C14: the written variable file is determined by the request alone: the  *)
(* seven assignments appear in the order environment, project_name,        *)
(* location, vm_count, vm_size, admin_username, os_type, each with the     *)
(* request's value, admin_username and os_type defaulting to "azureuser"   *)
(* and "linux"; a tags block follows iff tags is present, non-null and     *)
(* non-empty, with one entry per tag in the mapping's insertion order; and *)
(* every validated request with well-typed tags is written when the        *)
(* destination is writable.                                                *)
(***************************************************************************)
C14_VariableFileDeterminedByRequest ==
    /\ Written =>
          /\ Len(tfvars.assignments) = 7
          /\ \A i \in 1..7 : tfvars.assignments[i].key = AssignmentOrder[i]
          /\ \A i \in {1, 2, 3, 5} :
                /\ tfvars.assignments[i].text = data[AssignmentOrder[i]].s
                /\ tfvars.assignments[i].quoted
          /\ ~tfvars.assignments[4].quoted
          /\ data.vm_count.t = "int" =>
                tfvars.assignments[4].text = ToString(data.vm_count.n)
          /\ tfvars.assignments[6].text = TextOr("admin_username", "azureuser")
          /\ tfvars.assignments[7].text = TextOr("os_type", "linux")
          /\ tfvars.tags_block <=> TagsNonEmpty
          /\ TagsNonEmpty =>
                /\ Len(tfvars.tags) = Len(data.tags.items)
                /\ \A i \in DOMAIN tfvars.tags :
                      /\ tfvars.tags[i].key = data.tags.items[i].key
                      /\ tfvars.tags[i].text = data.tags.items[i].value
                      /\ tfvars.tags[i].quoted
          /\ ~TagsNonEmpty => tfvars.tags = <<>>
    /\ (ppc \in {"return", "exited"} /\ pverdict # None /\ pverdict.ok
            /\ TagsWellTyped /\ dir_ok) => Written

C14_Witness ==
    /\ Written
    /\ data.vm_count = JInt(2)
    /\ data.admin_username = Absent
    /\ data.os_type = JStr("windows")
    /\ data.tags.t = "dict"
    /\ Len(data.tags.items) = 2
    /\ data.tags.items[1].key = "tier"
    /\ tfvars.tags[1].key = "tier"
    /\ tfvars.assignments[6].text = "azureuser"

(***************************************************************************)
(* Observations on the order of the stages                                 *)
(***************************************************************************)
\* what each stage invokes, in the order the specification fixes
StageCalls ==
    <<"terraform show", "terraform output", "validate_resources", "ping_vms",
      "generate_report">>

IsStageCall(name) == \E i \in 1..5 : StageCalls[i] = name

StageLog == SelectSeq(calls, IsStageCall)

Rank(p) ==
    CASE p = "FetchingState"       -> 1
      [] p = "FetchingOutputs"     -> 2
      [] p = "ValidatingResources" -> 3
      [] p = "ProbingConnectivity" -> 4
      [] p = "Reporting"           -> 5
      [] p = "Done"                -> 6
      [] p = "Failed"              -> 7

(***************************************************************************)
(* C15: the stages run in the order FetchingState, FetchingOutputs,        *)
(* ValidatingResources, ProbingConnectivity, Reporting, Done: the stage    *)
(* invocations logged so far are a prefix of that order (so none runs      *)
(* early or twice), every ping lies between ping_vms and generate_report,  *)
(* each step leads to the next stage or, from the first three only, to     *)
(* Failed, and once ProbingConnectivity is entered Reporting and then Done *)
(* follow.                                                                 *)
(***************************************************************************)
C15_StrictStageOrder ==
    /\ [](/\ Len(StageLog) <= 5
          /\ \A i \in DOMAIN StageLog : StageLog[i] = StageCalls[i]
          /\ pc \notin {"Failed", "Done"} => Len(StageLog) = Rank(pc) - 1
               \/ (pc = "ProbingConnectivity" /\ Len(StageLog) = 4)
          /\ \A i \in DOMAIN calls : calls[i] = "ping" =>
                /\ \E j \in 1..(i - 1) : calls[j] = "ping_vms"
                /\ \A j \in 1..i : calls[j] # "generate_report")
    /\ [][pc' # pc =>
            \/ (Rank(pc') = Rank(pc) + 1 /\ pc' # "Failed")
            \/ (pc' = "Failed" /\ Rank(pc) <= 3)]_vars
    /\ (pc = "ProbingConnectivity") ~> (pc = "Reporting")
    /\ (pc = "Reporting") ~> (pc = "Done")

C15_Witness ==
    /\ pc = "Done"
    /\ StageLog = StageCalls
    /\ Count("ping") = 1
    /\ calls[Len(calls)] = "generate_report"

(***************************************************************************)
(* C16: the outputs document is fetched once and then only read:           *)
(* validate_resources, ping_vms and generate_report each receive the       *)
(* document the outputs query returned, main's outputs stays that document *)
(* through all later steps, and the state is queried once and not again.   *)
(***************************************************************************)
C16_OutputsOnlyRead ==
    /\ [](/\ \A i \in DOMAIN passed :
                /\ Available(outputs_resp)
                /\ passed[i] = outputs_resp.stdout.doc
          /\ Len(passed) = Count("validate_resources") + Count("ping_vms")
                              + Count("generate_report")
          /\ outputs # None => outputs = outputs_resp.stdout.doc
          /\ Count("terraform output") <= 1
          /\ StateQueried => Count("terraform show") = 1)
    /\ [][/\ outputs # None => outputs' = outputs
          /\ OutputsQueried => outputs_resp' = outputs_resp
          /\ StateQueried => state_resp' = state_resp]_vars

C16_Witness ==
    /\ pc = "Done"
    /\ Len(passed) = 3
    /\ passed[1] = passed[3]
    /\ passed[3] = outputs_resp.stdout.doc
    /\ passed[3].summary = {"environment", "vm_count"}

(***************************************************************************)
(* C17: whenever the run is in ProbingConnectivity or Reporting (or Done), *)
(* outputs is a non-empty mapping holding all four required keys; so in a  *)
(* pipeline run ping_vms never takes its skip branch and generate_report   *)
(* never renders the "no outputs" report.                                  *)
(***************************************************************************)
C17_RequiredKeysWhenProbingOrReporting ==
    /\ pc \in {"ProbingConnectivity", "Reporting", "Done"} =>
          /\ outputs # None
          /\ outputs.keys # {}
          /\ \A i \in 1..4 : RequiredKeys[i] \in outputs.keys
    /\ ~Printed("Skipping connectivity test")
    /\ report # None => report.kind = "VALIDATION COMPLETED"
    /\ Count("ping_vms") = 1 => probe_idx >= 1

C17_Witness ==
    /\ pc = "Reporting"
    /\ outputs.keys = {RequiredKeys[i] : i \in 1..4}
    /\ outputs.public_ips = <<>>
    /\ Count("ping_vms") = 1

(***************************************************************************)
(* C18: given that every external invocation returns, every run reaches a  *)
(* terminal state (Done or Failed) whatever the backend answers and        *)
(* whatever the vm_public_ips list, and ping_vms returns after exactly as  *)
(* many pings as the list has entries.                                     *)
(***************************************************************************)
C18_EveryRunTerminates ==
    /\ <>Terminal
    /\ [](pc \in {"Reporting", "Done"} =>
            /\ Count("ping") = Len(outputs.public_ips)
            /\ probe_idx = Len(outputs.public_ips) + 1)
    /\ [](Terminal => exit_code \in {0, 1})

C18_Witness ==
    /\ pc = "Done"
    /\ Len(outputs.public_ips) = 2
    /\ Len(probed) = 2
    /\ probed[1].returncode = 0
    /\ probed[2].returncode # 0

====
